---- MODULE Spec2Model ----
(***************************************************************************)
(* Model of the pay-per-request client flow of the DataNexus examples:     *)
(*   examples/python-sdk/x402_example.py    (SimpleX402Client)             *)
(*   examples/python-sdk/datanexus_client.py (DataNexusClient)             *)
(*   examples/demo_x402_complete_flow.py    (demo_complete_x402_flow)      *)
(* The program is sequential.  Every action is one step between two        *)
(* blocking calls to the outside world (an HTTP request, an RPC call, a    *)
(* sleep); the outcome of the outside call is the action's input.          *)
(***************************************************************************)
EXTENDS Integers, Sequences, FiniteSets, TLC

VARIABLES
    pc,               \* position of the single thread of control
    rpc_url,          \* the rpc_url argument of SimpleX402Client.__init__
    solana_rpc_url,   \* self.solana_rpc_url
    solana_client,    \* endpoint of self.solana_client, NoUrl before adoption
    probes,           \* probes made with get_latest_blockhash, in order
    backup_idx,       \* position of the backup loop in backup_rpc_urls
    key_arg,          \* the solana_private_key argument
    keypair,          \* self.keypair
    ctor_error,       \* exception that ended construction, "" when none
    op,               \* the running (or last) call
    auto_pay,         \* auto_pay argument of download_dataset
    output_path,      \* output_path argument of download_dataset
    requests,         \* HTTP requests issued by the current call, in order
    response,         \* the local variable `response`
    payment,          \* locals of _handle_402_response / demo step 2
    attempt,          \* loop variable of _transfer_usdc
    submits,          \* send_transaction calls of the current _transfer_usdc
    sleeps,           \* time.sleep arguments of the current _transfer_usdc
    rpc_used,         \* endpoints the current _transfer_usdc talked to
    signature,        \* signature returned by send_transaction, "" when none
    error_msg,        \* error_msg of the last failed attempt
    transfer_error,   \* the exception _transfer_usdc raised, if any
    confirm_failed,   \* confirm_transaction raised in the current transfer
    handle_calls,     \* _handle_402_response invocations of the current call
    transfer_calls,   \* _transfer_usdc invocations of the current call
    result,           \* what the call returned (or raised) to its caller
    file,             \* bytes written to output_path by the current call
    script,           \* position of main() of x402_example.py, "none" when
                      \* the client is driven directly
    args              \* arguments of the running DataNexusClient call that
                      \* no other variable holds

vars == << pc, rpc_url, solana_rpc_url, solana_client, probes, backup_idx,
           key_arg, keypair, ctor_error, op, auto_pay, output_path, requests,
           response, payment, attempt, submits, sleeps, rpc_used, signature, error_msg,
           transfer_error, confirm_failed, handle_calls, transfer_calls, result, file,
           script, args >>

ctorVars == << rpc_url, solana_rpc_url, solana_client, probes, backup_idx,
               key_arg, keypair, ctor_error >>

transferVars == << attempt, submits, sleeps, rpc_used, signature, error_msg,
                   transfer_error, confirm_failed >>

-----------------------------------------------------------------------------
(* Program constants *)

USDC_DECIMALS == 6

MaxRetries == 3

DemoConfirmWait == 3

Pow10(k) == CASE k = 0 -> 1 [] k = 1 -> 10 [] k = 2 -> 100 [] k = 3 -> 1000
              [] k = 4 -> 10000 [] k = 5 -> 100000 [] k = 6 -> 1000000
              [] k = 7 -> 10000000

BackupRpcUrls == << "https://api.devnet.solana.com",
                    "https://rpc.ankr.com/solana_devnet",
                    "https://solana-devnet-rpc.allthatnode.com" >>

DefaultRpcUrl == "https://api.devnet.solana.com"

NoUrl == "none"

\* rpc_url arguments: the default (the first entry of the backup list) and
\* an endpoint that is not in the backup list
RpcUrlArgs == { DefaultRpcUrl, "https://custom.rpc.example" }

-----------------------------------------------------------------------------
(* IEEE-754 binary64 arithmetic on bit sequences (most significant bit     *)
(* first), as float(), * and int() of CPython compute it.                  *)

RECURSIVE BitsOf(_)
BitsOf(n) == IF n = 0 THEN << >> ELSE Append(BitsOf(n \div 2), n % 2)

RECURSIVE NatOf(_)
NatOf(b) == IF Len(b) = 0 THEN 0
            ELSE 2 * NatOf(SubSeq(b, 1, Len(b) - 1)) + b[Len(b)]

Zeros(k) == [i \in 1..k |-> 0]

\* the bit sequence without its leading zeros
Strip(b) ==
    IF \A i \in 1..Len(b) : b[i] = 0 THEN << >>
    ELSE LET j == CHOOSE i \in 1..Len(b) :
                      b[i] = 1 /\ \A h \in 1..(i - 1) : b[h] = 0
         IN  SubSeq(b, j, Len(b))

\* long division of bits lo..hi of b by the small divisor D, r the remainder
\* carried in from the bits before lo (the range is halved and each half is
\* bound as a value to keep the evaluation shallow; the digits are produced
\* in the schoolbook order)
RECURSIVE DivRange(_, _, _, _, _)
DivRange(b, D, lo, hi, r) ==
    IF lo > hi THEN [q |-> << >>, r |-> r]
    ELSE IF lo = hi THEN
        LET x == 2 * r + b[lo]
        IN  IF x >= D THEN [q |-> << 1 >>, r |-> x - D]
                      ELSE [q |-> << 0 >>, r |-> x]
    ELSE LET mid == (lo + hi) \div 2
         IN  CHOOSE out \in UNION {
                 { [q |-> left.q \o right.q, r |-> right.r] :
                     right \in { DivRange(b, D, mid + 1, hi, left.r) } } :
                 left \in { DivRange(b, D, lo, mid, r) } } : TRUE

DivSmall(b, D) ==
    LET s == DivRange(b, D, 1, Len(b), 0) IN [q |-> Strip(s.q), r |-> s.r]

\* product of bits lo..hi of b and the small factor M, c the carry coming in
\* from the bits after hi
RECURSIVE MulRange(_, _, _, _, _)
MulRange(b, M, lo, hi, c) ==
    IF lo > hi THEN [p |-> << >>, c |-> c]
    ELSE IF lo = hi THEN
        LET x == b[lo] * M + c IN [p |-> << x % 2 >>, c |-> x \div 2]
    ELSE LET mid == (lo + hi) \div 2
         IN  CHOOSE out \in UNION {
                 { [p |-> left.p \o right.p, c |-> left.c] :
                     left \in { MulRange(b, M, lo, mid, right.c) } } :
                 right \in { MulRange(b, M, mid + 1, hi, c) } } : TRUE

MulSmall(b, M) ==
    LET s == MulRange(b, M, 1, Len(b), 0) IN Strip(BitsOf(s.c) \o s.p)

\* b + 1
Inc(b) ==
    IF \A i \in 1..Len(b) : b[i] = 1 THEN << 1 >> \o Zeros(Len(b))
    ELSE LET j == CHOOSE i \in 1..Len(b) :
                      b[i] = 0 /\ \A h \in (i + 1)..Len(b) : b[h] = 1
         IN  [i \in 1..Len(b) |-> IF i < j THEN b[i] ELSE IF i = j THEN 1 ELSE 0]

IsOdd(b) == Len(b) > 0 /\ b[Len(b)] = 1

\* round to nearest, ties to even: q is the truncated value, cmp the sign of
\* (discarded part - one half unit)
RoundHalfEven(q, cmp) ==
    IF cmp > 0 \/ (cmp = 0 /\ IsOdd(q)) THEN Inc(q) ELSE q

\* sign of (the value of the bit sequence low, k bits wide) - 2^(k-1)
CmpHalf(low, k) ==
    IF k = 0 THEN -1
    ELSE IF low[1] = 0 THEN -1
    ELSE IF \E i \in 2..k : low[i] = 1 THEN 1 ELSE 0

MantissaBits == 53

\* float("n / 10^d") for n > 0: the binary64 number m * 2^(-e) nearest to it
PyFloat(n, d) ==
    LET D == Pow10(d)
        Q(e) == DivSmall(BitsOf(n) \o Zeros(e), D)
        e0 == MantissaBits - 1 + Len(BitsOf(D)) - Len(BitsOf(n))
        e == CHOOSE x \in (e0 - 1)..(e0 + 1) : Len(Q(x).q) = MantissaBits
        qr == Q(e)
        cmp == IF 2 * qr.r > D THEN 1 ELSE IF 2 * qr.r = D THEN 0 ELSE -1
    IN  [m |-> RoundHalfEven(qr.q, cmp), e |-> e]

\* f * M in binary64 (M a small integer, exactly representable)
FloatMul(f, M) ==
    LET p == MulSmall(f.m, M)
        k == IF Len(p) > MantissaBits THEN Len(p) - MantissaBits ELSE 0
        q == SubSeq(p, 1, Len(p) - k)
        low == SubSeq(p, Len(p) - k + 1, Len(p))
    IN  [m |-> RoundHalfEven(q, CmpHalf(low, k)), e |-> f.e - k]

\* int(f) for f >= 0: truncation toward zero
PyInt(f) ==
    IF f.e <= 0 THEN NatOf(f.m \o Zeros(0 - f.e))
    ELSE IF f.e >= Len(f.m) THEN 0
    ELSE NatOf(SubSeq(f.m, 1, Len(f.m) - f.e))

\* int(float(s) * 10 ** decimals) for the decimal string s = (-)n / 10^d
ToLamports(a) ==
    IF a.n = 0 THEN 0
    ELSE LET v == PyInt(FloatMul(PyFloat(a.n, a.d), Pow10(USDC_DECIMALS)))
         IN  IF a.neg THEN 0 - v ELSE v

-----------------------------------------------------------------------------
(* Values *)

\* Python's None, as a header value, a keypair, a token
None == "None"

\* truthiness of an optional string (None and "" are falsy)
Truthy(v) == v # None /\ v # ""

\* PyOr with the operands swapped
PyOrSwapped(a, b) == IF Truthy(b) THEN b ELSE a

\* a or b
PyOr(a, b) == IF Truthy(a) THEN a ELSE b

\* HeaderGet that ignores the default
HeaderGetNoDefault(v, default) == v

\* headers.get(name, default)
HeaderGet(v, default) == IF v = None THEN default ELSE v

Recipient == "RecipientWallet"

\* x-payment-amount values sent by the server: empty, not a number, zero,
\* negative, two amounts with at most 6 fractional digits, one with 7
AmountStrings == { "", "free", "0", "-0.5", "0.10", "4.1", "0.1234567" }

\* the decimal (-)n / 10^d a numeric string denotes
DecimalOf(s) ==
    CASE s = "0"         -> [neg |-> FALSE, n |-> 0,       d |-> 0]
      [] s = "-0.5"      -> [neg |-> TRUE,  n |-> 5,       d |-> 1]
      [] s = "0.10"      -> [neg |-> FALSE, n |-> 10,      d |-> 2]
      [] s = "4.1"       -> [neg |-> FALSE, n |-> 41,      d |-> 1]
      [] s = "0.1234567" -> [neg |-> FALSE, n |-> 1234567, d |-> 7]

\* float(s) succeeds (float(None) raises TypeError, float("") ValueError)
IsNumeric(s) == s \in { "0", "-0.5", "0.10", "4.1", "0.1234567" }

\* amount_lamports = int(float(amount_str) * 10 ** USDC_DECIMALS) for every
\* amount string float() accepts
AmountLamports ==
    [s \in { a \in AmountStrings : IsNumeric(a) } |-> ToLamports(DecimalOf(s))]

Contents == { "bytes-a", "bytes-b" }

ErrorBodies == { None, "server error message" }

\* an HTTP response as the client reads it: the status, the x-payment-*
\* headers, error.message of a JSON error body (None when the body is not
\* JSON or holds no message) and the content
Response(st, am, cu, rc, er, co) ==
    [status_code |-> st, amount |-> am, currency |-> cu, recipient |-> rc,
     error |-> er, content |-> co]

Responses ==
    { Response(200, None, None, None, None, c) : c \in Contents }
    \cup { Response(402, am, cu, rc, er, "") :
             am \in AmountStrings \cup {None}, cu \in {None, "USDC"},
             rc \in {None, Recipient}, er \in ErrorBodies }
    \cup { Response(500, None, None, None, er, "") : er \in ErrorBodies }

NoResponse == Response(0, None, None, None, None, "")

NoPayment == [amount_str |-> None, currency |-> None, recipient |-> None,
              amount_lamports |-> 0]

NoResult == [kind |-> "none"]

\* _transfer_usdc raised nothing
NoTransferError == [attempts |-> 0, error_msg |-> ""]

Signatures == { "sig-1", "sig-2" }

KeyArgs == { None, "valid-key", "bad-key" }

DownloadUrl == "/api/agent/datasets/ds/download"

AnalyzeUrl == "/api/agent/datasets/ds/analyze"

OutputPath == "./downloaded.csv"

Request(m, u, b, t) == [method |-> m, url |-> u, body |-> b, token |-> t]

\* the arguments of purchase_dataset besides the dataset id
PurchaseArgs(m, h, t) ==
    [payment_method |-> m, payment_tx_hash |-> h, x402_token |-> t]

NoArgs == PurchaseArgs(None, None, None)

PurchaseUrl == "/api/agent/datasets/ds/purchase"

-----------------------------------------------------------------------------
Init ==
    /\ pc = "start"
    /\ rpc_url = NoUrl
    /\ solana_rpc_url = NoUrl
    /\ solana_client = NoUrl
    /\ probes = << >>
    /\ backup_idx = 0
    /\ key_arg = None
    /\ keypair = None
    /\ ctor_error = ""
    /\ op = "none"
    /\ auto_pay = TRUE
    /\ output_path = None
    /\ requests = << >>
    /\ response = NoResponse
    /\ payment = NoPayment
    /\ attempt = 0
    /\ submits = 0
    /\ sleeps = << >>
    /\ rpc_used = {}
    /\ signature = ""
    /\ error_msg = ""
    /\ transfer_error = NoTransferError
    /\ confirm_failed = FALSE
    /\ handle_calls = 0
    /\ transfer_calls = 0
    /\ result = NoResult
    /\ file = None
    /\ script = "none"
    /\ args = NoArgs

-----------------------------------------------------------------------------
(* SimpleX402Client.__init__ and _init_solana_client *)

\* one get_latest_blockhash() probe of an endpoint and whether it answered
Probe(url, ok) == [url |-> url, ok |-> ok]

\* __init__: store the arguments and enter _init_solana_client
Construct(url, key) ==
    /\ pc = "start"
    /\ pc' = "probe_primary"
    /\ rpc_url' = url
    /\ solana_rpc_url' = url
    /\ key_arg' = key
    /\ UNCHANGED << solana_client, probes, backup_idx, keypair, ctor_error, op,
                    auto_pay, output_path, requests, response, payment, transferVars,
                    handle_calls, transfer_calls, result, file >>

\* a client is constructed by code that is no script of this model
NewClient(url, key) == Construct(url, key) /\ UNCHANGED << script, args >>

\* the rest of __init__ once _init_solana_client returned a client for url
FinishInit(url) ==
    /\ solana_client' = url
    /\ IF key_arg = None
       THEN keypair' = None /\ pc' = "ready" /\ ctor_error' = ""
       ELSE IF key_arg = "bad-key"
       THEN /\ keypair' = None
            /\ pc' = "ctor_failed"
            /\ ctor_error' = "Invalid private key format"
       ELSE keypair' = "keypair" /\ pc' = "ready" /\ ctor_error' = ""

\* NextBackup with an off-by-one start: the loop drops an endpoint
NextBackupSkipOne(i) ==
    IF \E j \in (i + 1)..Len(BackupRpcUrls) : BackupRpcUrls[j] # rpc_url
    THEN CHOOSE j \in (i + 1)..Len(BackupRpcUrls) :
             /\ BackupRpcUrls[j] # rpc_url
             /\ \A h \in (i + 1)..(j - 1) : BackupRpcUrls[h] = rpc_url
    ELSE Len(BackupRpcUrls) + 1

\* NextBackup without the `continue`: the primary is tried again when the
\* backup list holds it
NextBackupNoSkip(i) ==
    IF i <= Len(BackupRpcUrls) THEN i ELSE Len(BackupRpcUrls) + 1

\* the first position j >= i of the backup loop that is not skipped
\* (`if backup_url == rpc_url: continue`); Len + 1 when the loop is over
NextBackup(i) ==
    IF \E j \in i..Len(BackupRpcUrls) : BackupRpcUrls[j] # rpc_url
    THEN CHOOSE j \in i..Len(BackupRpcUrls) :
             /\ BackupRpcUrls[j] # rpc_url
             /\ \A h \in i..(j - 1) : BackupRpcUrls[h] = rpc_url
    ELSE Len(BackupRpcUrls) + 1

\* the backup loop moves on to position j, or raises when the list is over
ContinueBackups(j) ==
    IF j > Len(BackupRpcUrls)
    THEN /\ pc' = "ctor_failed"
         /\ ctor_error' = "Failed to connect to any Solana RPC node"
         /\ UNCHANGED backup_idx
    ELSE /\ pc' = "probe_backup"
         /\ backup_idx' = j
         /\ UNCHANGED ctor_error

\* Client(rpc_url).get_latest_blockhash() on the primary endpoint
ProbePrimary(ok) ==
    /\ pc = "probe_primary"
    /\ probes' = Append(probes, Probe(rpc_url, ok))
    /\ IF ok
       THEN FinishInit(rpc_url) /\ UNCHANGED backup_idx
       ELSE ContinueBackups(NextBackup(1)) /\ UNCHANGED << solana_client, keypair >>
    /\ UNCHANGED << rpc_url, solana_rpc_url, key_arg, op, auto_pay, output_path, requests,
                    response, payment, transferVars, handle_calls,
                    transfer_calls, result, file, script, args >>

\* Client(backup_url).get_latest_blockhash() on the backup at backup_idx
ProbeBackup(ok) ==
    /\ pc = "probe_backup"
    /\ probes' = Append(probes, Probe(BackupRpcUrls[backup_idx], ok))
    /\ IF ok
       THEN /\ solana_rpc_url' = BackupRpcUrls[backup_idx]
            /\ FinishInit(BackupRpcUrls[backup_idx])
            /\ UNCHANGED backup_idx
       ELSE /\ ContinueBackups(NextBackup(backup_idx + 1))
            /\ UNCHANGED << solana_client, solana_rpc_url, keypair >>
    /\ UNCHANGED << rpc_url, key_arg, op, auto_pay, output_path, requests, response,
                    payment, transferVars, handle_calls, transfer_calls,
                    result, file, script, args >>

-----------------------------------------------------------------------------
(* The pay-per-request calls: SimpleX402Client.download_dataset,           *)
(* SimpleX402Client.analyze_dataset and steps 2-4 of                       *)
(* demo_complete_x402_flow                                                 *)

CallUrl == IF op = "analyze" THEN AnalyzeUrl ELSE DownloadUrl

CallMethod == IF op = "analyze" THEN "POST" ELSE "GET"

CallBody == IF op = "analyze" THEN "analysis-json" ELSE None

\* a fresh call frame
NewCall(o, ap, m, u, b) ==
    /\ pc \in { "ready", "done" }
    /\ pc' = "request"
    /\ op' = o
    /\ auto_pay' = ap
    /\ output_path' = IF o = "analyze" THEN None ELSE OutputPath
    /\ requests' = << Request(m, u, b, None) >>
    /\ response' = NoResponse
    /\ payment' = NoPayment
    /\ attempt' = 0
    /\ submits' = 0
    /\ sleeps' = << >>
    /\ rpc_used' = {}
    /\ signature' = ""
    /\ error_msg' = ""
    /\ transfer_error' = NoTransferError
    /\ confirm_failed' = FALSE
    /\ handle_calls' = 0
    /\ transfer_calls' = 0
    /\ result' = NoResult
    /\ file' = None
    /\ UNCHANGED << ctorVars, args >>

\* download_dataset(dataset_id, output_path, auto_pay): the first GET
StartDownload(ap) ==
    /\ script = "none"
    /\ NewCall("download", ap, "GET", DownloadUrl, None)
    /\ UNCHANGED script

\* analyze_dataset(dataset_id, prompt, ...): the first POST
StartAnalyze ==
    /\ script = "none"
    /\ NewCall("analyze", TRUE, "POST", AnalyzeUrl, "analysis-json")
    /\ UNCHANGED script

\* StartDemo without the check of the configured private key
StartDemoUnchecked ==
    /\ script = "none"
    /\ NewCall("demo", TRUE, "GET", DownloadUrl, None)
    /\ UNCHANGED script

\* demo_complete_x402_flow, step 2: the script returns before it builds a
\* client when no private key is configured
StartDemo ==
    /\ script = "none"
    /\ keypair # None
    /\ NewCall("demo", TRUE, "GET", DownloadUrl, None)
    /\ UNCHANGED script

\* FinalResult that takes every status but 402 for a success
FinalResultAnyNon402(r) ==
    IF op = "demo"
    THEN IF r.status_code # 402
         THEN [kind |-> "demo", outcome |-> "downloaded"]
         ELSE [kind |-> "demo", outcome |-> "failed",
               status_code |-> r.status_code]
    ELSE IF r.status_code # 402
    THEN IF op = "download"
         THEN [kind |-> "dict", success |-> TRUE, file_size |-> r.content]
         ELSE [kind |-> "json", content |-> r.content]
    ELSE [kind |-> "dict", success |-> FALSE,
          error |-> IF r.error # None THEN r.error ELSE "failed",
          status_code |-> r.status_code]

\* the result dict of download_dataset / analyze_dataset for the final
\* response r, and the demo's printed outcome
FinalResult(r) ==
    IF op = "demo"
    THEN IF r.status_code = 200
         THEN [kind |-> "demo", outcome |-> "downloaded"]
         ELSE [kind |-> "demo", outcome |-> "failed",
               status_code |-> r.status_code]
    ELSE IF r.status_code = 200
    THEN IF op = "download"
         THEN [kind |-> "dict", success |-> TRUE, file_size |-> r.content]
         ELSE [kind |-> "json", content |-> r.content]
    ELSE [kind |-> "dict", success |-> FALSE,
          error |-> IF r.error # None THEN r.error
                    ELSE IF op = "download" THEN "Download failed"
                    ELSE "Analysis failed",
          status_code |-> r.status_code]

\* ReportResult that saves the body of every final response
ReportResultAlwaysWrites(r) ==
    /\ pc' = "done"
    /\ result' = FinalResult(r)
    /\ file' = IF op # "analyze" THEN r.content ELSE file
    /\ UNCHANGED << payment, transferVars, handle_calls, transfer_calls >>

\* `if response.status_code == 200: ... else: ...` at the end of the call
ReportResult(r) ==
    /\ pc' = "done"
    /\ result' = FinalResult(r)
    /\ file' = IF r.status_code = 200 /\ op # "analyze" THEN r.content ELSE file
    /\ UNCHANGED << payment, transferVars, handle_calls, transfer_calls >>

\* NeedsPayment that also sends a 200 down the payment branch
NeedsPaymentNot500(r) == r.status_code \in { 200, 402 }

\* `if response.status_code == 402:` on the first response
NeedsPayment(r) == r.status_code = 402

\* the first response arrives
FirstResponse(r) ==
    /\ pc = "request"
    /\ response' = r
    /\ IF NeedsPayment(r)
       THEN /\ pc' = "payment_required"
            /\ UNCHANGED << payment, transferVars, handle_calls,
                            transfer_calls, result, file >>
       ELSE ReportResult(r)
    /\ UNCHANGED << ctorVars, script, args, op, auto_pay, output_path, requests >>

\* HasIdentity with the check dropped
HasIdentityUnchecked == TRUE

\* `if not self.keypair:` of _handle_402_response
HasIdentity == keypair # None

\* the failure dict returned when _handle_402_response gave no token
PaymentFailed ==
    [kind |-> "dict", success |-> FALSE,
     error |-> "Payment failed - no Solana private key provided"]

\* _transfer_usdc(recipient_address, amount_lamports) is entered
EnterTransfer(lamports) ==
    /\ pc' = "attempt"
    /\ transfer_calls' = transfer_calls + 1
    /\ attempt' = 0
    /\ submits' = 0
    /\ sleeps' = << >>
    /\ rpc_used' = {}
    /\ signature' = ""
    /\ error_msg' = ""
    /\ transfer_error' = NoTransferError
    /\ confirm_failed' = FALSE
    /\ UNCHANGED << result, file >>

\* the call ends with result res and no further request
EndCall(res) ==
    /\ pc' = "done"
    /\ result' = res
    /\ UNCHANGED << transferVars, transfer_calls, file >>

\* AutoPayDisabled that never stops the payment
AutoPayDisabledNever == FALSE

\* `if not auto_pay:` of download_dataset (analyze_dataset has no such
\* argument)
AutoPayDisabled == op = "download" /\ ~auto_pay

\* download_dataset / analyze_dataset on a 402: the auto_pay check and
\* _handle_402_response up to its call of _transfer_usdc
ClientPaymentRequired ==
    IF AutoPayDisabled
    THEN /\ EndCall([kind |-> "dict", success |-> FALSE,
                     error |-> "Payment required",
                     payment_info |-> [amount |-> response.amount,
                                       currency |-> response.currency,
                                       recipient |-> response.recipient]])
         /\ UNCHANGED << payment, handle_calls >>
    ELSE /\ handle_calls' = handle_calls + 1
         /\ IF ~HasIdentity
            THEN /\ payment' = [amount_str |-> response.amount,
                                currency |-> HeaderGet(response.currency, "USDC"),
                                recipient |-> response.recipient,
                                amount_lamports |-> 0]
                 /\ EndCall(PaymentFailed)
            ELSE IF ~IsNumeric(response.amount)
            THEN /\ payment' = [amount_str |-> response.amount,
                                currency |-> HeaderGet(response.currency, "USDC"),
                                recipient |-> response.recipient,
                                amount_lamports |-> 0]
                 /\ EndCall(PaymentFailed)
            ELSE /\ payment' = [amount_str |-> response.amount,
                                currency |-> HeaderGet(response.currency, "USDC"),
                                recipient |-> response.recipient,
                                amount_lamports |->
                                    AmountLamports[response.amount]]
                 /\ EnterTransfer(AmountLamports[response.amount])

\* demo_complete_x402_flow on a 402: float(headers.get(..., 0)) in step 2,
\* payment_recipient[:20] and the conversion in step 3
DemoPaymentRequired ==
    LET amount_str == HeaderGet(response.amount, "0")
    IN  /\ UNCHANGED handle_calls
        /\ IF ~IsNumeric(amount_str)
           THEN /\ payment' = NoPayment
                /\ EndCall([kind |-> "demo", outcome |-> "Download attempt error"])
           ELSE IF response.recipient = None
           THEN /\ payment' = [amount_str |-> amount_str,
                               currency |-> response.currency,
                               recipient |-> None, amount_lamports |-> 0]
                /\ EndCall([kind |-> "raised", exc |-> "TypeError"])
           ELSE /\ payment' = [amount_str |-> amount_str,
                               currency |-> response.currency,
                               recipient |-> response.recipient,
                               amount_lamports |->
                                   AmountLamports[amount_str]]
                /\ EnterTransfer(AmountLamports[amount_str])

\* the step after a 402 on the first request
PaymentRequired ==
    /\ pc = "payment_required"
    /\ IF op = "demo" THEN DemoPaymentRequired ELSE ClientPaymentRequired
    /\ UNCHANGED << ctorVars, script, args, op, auto_pay, output_path, requests, response >>

-----------------------------------------------------------------------------
(* SimpleX402Client._transfer_usdc *)

\* WaitTime counting attempts from 0
WaitTimeFromZero(a) == a * 2

\* wait_time = (attempt + 1) * 2
WaitTime(a) == (a + 1) * 2

\* ShouldRetry with the bound off by one
ShouldRetryOneMore(a) == a < MaxRetries

\* `if attempt < max_retries - 1:` of the except branch
ShouldRetry(a) == a < MaxRetries - 1

\* what the caller makes of the exception _transfer_usdc raised:
\* _handle_402_response returns None and the client call returns the failure
\* dict; the demo prints the error and returns
TransferRaised ==
    IF op = "demo" THEN [kind |-> "demo", outcome |-> "Payment error"]
    ELSE PaymentFailed

\* Exception(f"Failed to send transaction after {max_retries} attempts:
\* {error_msg}")
TransferError(msg) == [attempts |-> MaxRetries, error_msg |-> msg]

\* AttemptFailed that keeps the message of the first failure
AttemptFailedKeepsFirst(msg) ==
    /\ error_msg' = IF error_msg = "" THEN msg ELSE error_msg
    /\ IF ShouldRetry(attempt)
       THEN pc' = "sleep" /\ UNCHANGED << transfer_error, result >>
       ELSE /\ pc' = "done"
            /\ transfer_error' =
                   TransferError(IF error_msg = "" THEN msg ELSE error_msg)
            /\ result' = TransferRaised

\* the except branch of the retry loop
AttemptFailed(msg) ==
    /\ error_msg' = msg
    /\ IF ShouldRetry(attempt)
       THEN pc' = "sleep" /\ UNCHANGED << transfer_error, result >>
       ELSE /\ pc' = "done"
            /\ transfer_error' = TransferError(msg)
            /\ result' = TransferRaised

\* TransferEndpoint that moves to another endpoint of the backup list in
\* every attempt
TransferEndpointPerAttempt == BackupRpcUrls[attempt + 1]

\* the endpoint _transfer_usdc talks to: self.solana_client, the client
\* the constructor chose
TransferEndpoint == solana_client

\* one loop iteration up to the signed transaction: the token accounts are
\* derived (this raises on a recipient that is no address), the latest
\* blockhash is fetched from self.solana_client
BuildTransaction(ok) ==
    /\ pc = "attempt"
    /\ IF payment.recipient = None
       THEN /\ AttemptFailed("invalid recipient address")
            /\ UNCHANGED rpc_used
       ELSE /\ rpc_used' = rpc_used \cup { TransferEndpoint }
            /\ IF ok THEN pc' = "send" /\ UNCHANGED << error_msg, transfer_error, result >>
                     ELSE AttemptFailed("blockhash request failed")
    /\ UNCHANGED << ctorVars, script, args, op, auto_pay, output_path, requests, response, payment,
                    attempt, submits, sleeps, signature, confirm_failed,
                    handle_calls, transfer_calls, file >>

\* self.solana_client.send_transaction(...): out is the signature of the
\* submitted transaction, or "fail" when the call raised
SendTransaction(out) ==
    /\ pc = "send"
    /\ submits' = submits + 1
    /\ rpc_used' = rpc_used \cup { TransferEndpoint }
    /\ IF out \in Signatures
       THEN /\ signature' = out
            /\ pc' = "confirm"
            /\ UNCHANGED << error_msg, transfer_error, result >>
       ELSE /\ AttemptFailed("send_transaction failed")
            /\ UNCHANGED signature
    /\ UNCHANGED << ctorVars, script, args, op, auto_pay, output_path, requests, response, payment,
                    attempt, sleeps, confirm_failed, handle_calls,
                    transfer_calls, file >>

\* AfterConfirm without the inner try: a confirmation failure reaches the
\* except branch of the retry loop
AfterConfirmPropagates(ok) ==
    /\ confirm_failed' = ~ok
    /\ IF ok THEN pc' = "paid" /\ UNCHANGED << error_msg, transfer_error, result >>
             ELSE AttemptFailed("confirmation failed")

\* the inner try around confirm_transaction: a failure is printed as a
\* warning and `return signature` is reached either way
AfterConfirm(ok) ==
    /\ pc' = "paid"
    /\ confirm_failed' = ~ok
    /\ UNCHANGED << error_msg, transfer_error, result >>

\* confirm_transaction(sig_obj, commitment="confirmed") returns or raises
ConfirmTransaction(ok) ==
    /\ pc = "confirm"
    /\ AfterConfirm(ok)
    /\ UNCHANGED << ctorVars, script, args, op, auto_pay, output_path, requests, response, payment,
                    attempt, submits, sleeps, rpc_used, signature,
                    handle_calls, transfer_calls, file >>

\* Sleep that starts the next attempt without having slept
SleepNotAwaited ==
    /\ pc = "sleep"
    /\ attempt' = attempt + 1
    /\ pc' = "attempt"
    /\ UNCHANGED << ctorVars, script, args, op, auto_pay, output_path,
                    requests, response, payment, submits, sleeps, rpc_used,
                    signature, error_msg, transfer_error, confirm_failed,
                    handle_calls, transfer_calls, result, file >>

\* Sleep that starts the same attempt again
SleepSameAttempt ==
    /\ pc = "sleep"
    /\ pc' = "attempt"
    /\ UNCHANGED << ctorVars, script, args, op, auto_pay, output_path,
                    requests, response, payment, attempt, submits, sleeps,
                    rpc_used, signature, error_msg, transfer_error,
                    confirm_failed, handle_calls, transfer_calls, result,
                    file >>

\* time.sleep(wait_time) returns and the loop starts the next attempt
Sleep ==
    /\ pc = "sleep"
    /\ sleeps' = Append(sleeps, WaitTime(attempt))
    /\ attempt' = attempt + 1
    /\ pc' = "attempt"
    /\ UNCHANGED << ctorVars, script, args, op, auto_pay, output_path, requests, response, payment,
                    submits, rpc_used, signature, error_msg, transfer_error,
                    confirm_failed,
                    handle_calls, transfer_calls, result, file >>

-----------------------------------------------------------------------------
(* Retry with proof *)

\* ProofToken sending the recipient address instead of the signature
ProofTokenRecipient == payment.recipient

\* headers={"x-payment-token": payment_token}
ProofToken == signature

\* the original request is issued again with the proof header (the demo
\* sleeps DemoConfirmWait seconds first); the locals of _handle_402_response
\* and _transfer_usdc are gone
RetryRequest ==
    /\ pc = "paid"
    /\ pc' = "retry"
    /\ requests' = Append(requests,
                          Request(CallMethod, CallUrl, CallBody, ProofToken))
    /\ payment' = NoPayment
    /\ attempt' = 0
    /\ submits' = 0
    /\ sleeps' = << >>
    /\ rpc_used' = {}
    /\ error_msg' = ""
    /\ transfer_error' = NoTransferError
    /\ confirm_failed' = FALSE
    /\ UNCHANGED << ctorVars, script, args, op, auto_pay, output_path, response, signature, handle_calls,
                    transfer_calls, result, file >>

\* AfterRetry as a loop: another 402 is paid again
AfterRetryLoop(r) ==
    IF r.status_code = 402
    THEN /\ pc' = "payment_required"
         /\ UNCHANGED << payment, transferVars, handle_calls, transfer_calls,
                         result, file >>
    ELSE ReportResult(r)

\* after the retry the code falls through to the status check: no loop
AfterRetry(r) == ReportResult(r)

\* the response to the retried request arrives
RetryResponse(r) ==
    /\ pc = "retry"
    /\ response' = r
    /\ AfterRetry(r)
    /\ UNCHANGED << ctorVars, script, args, op, auto_pay, output_path, requests >>

\* session.get / session.post / requests.get raises (connection failure):
\* the client call lets the exception through, the demo prints and returns
HttpRaises ==
    /\ pc \in { "request", "retry" }
    /\ pc' = "done"
    /\ result' = IF op = "demo"
                 THEN [kind |-> "demo", outcome |-> "Download error"]
                 ELSE [kind |-> "raised", exc |-> "RequestException"]
    /\ UNCHANGED << ctorVars, script, args, op, auto_pay, output_path, requests, response, payment,
                    transferVars, handle_calls, transfer_calls, file >>

-----------------------------------------------------------------------------
(* DataNexusClient.download_dataset *)

\* dict.get(key, default) on a parsed JSON object
DictGet(v, default) == IF v = None THEN default ELSE v

\* the JSON body of a 402 as download_dataset reads it: parsed is FALSE when
\* response.json() or the chain of .get calls raises; price, currency and
\* network are the fields of error.details, message is error.message
Body(ok, pr, cu, nw, ms) ==
    [parsed |-> ok, price |-> pr, currency |-> cu, network |-> nw,
     message |-> ms]

DNBodies ==
    { Body(FALSE, None, None, None, None) }
    \cup { Body(TRUE, pr, cu, nw, ms) :
             pr \in {None, "0.25"}, cu \in {None, "SOL"},
             nw \in {None, "solana-mainnet"}, ms \in {None, "Buy it first"} }

DNResponse(st, am, cu, rc, nw, bd, co) ==
    [status_code |-> st, amount |-> am, currency |-> cu, recipient |-> rc,
     network |-> nw, body |-> bd, content |-> co]

DNResponses ==
    { DNResponse(200, None, None, None, None,
                 Body(FALSE, None, None, None, None), c) : c \in Contents }
    \cup { DNResponse(402, am, cu, rc, nw, bd, "") :
             am \in {None, "", "0.10"}, cu \in {None, "", "USDC"},
             rc \in {None, Recipient}, nw \in {None, "solana-devnet"},
             bd \in DNBodies }
    \cup { DNResponse(500, None, None, None, None,
                      Body(FALSE, None, None, None, None), "") }

\* payment_info of the try branch (the JSON body parsed)
PaymentInfoFromBody(r) ==
    [paymentRequired |-> TRUE,
     amount |-> PyOr(r.amount, r.body.price),
     currency |-> PyOr(r.currency, DictGet(r.body.currency, "USDC")),
     recipient |-> r.recipient,
     network |-> PyOr(r.network, DictGet(r.body.network, "solana")),
     message |-> DictGet(r.body.message, "Payment required")]

\* payment_info of the except branch (headers only)
PaymentInfoFromHeaders(r) ==
    [paymentRequired |-> TRUE,
     amount |-> r.amount,
     currency |-> HeaderGet(r.currency, "USDC"),
     recipient |-> r.recipient,
     network |-> HeaderGet(r.network, "solana"),
     message |-> "Payment required"]

PaymentInfo(r) ==
    IF r.body.parsed THEN PaymentInfoFromBody(r) ELSE PaymentInfoFromHeaders(r)

\* download_dataset(dataset_id, output_path, auto_pay) of the plain SDK
\* client: session.get(url, stream=True); output is FALSE for output_path=None
StartDNDownload(ap, output) ==
    /\ pc \in { "start", "dn_done" }
    /\ pc' = "dn_request"
    /\ op' = "dn_download"
    /\ auto_pay' = ap
    /\ output_path' = IF output THEN OutputPath ELSE None
    /\ requests' = << Request("GET", DownloadUrl, None, None) >>
    /\ response' = NoResponse
    /\ payment' = NoPayment
    /\ result' = NoResult
    /\ file' = None
    /\ args' = NoArgs
    /\ UNCHANGED << ctorVars, script, transferVars, handle_calls, transfer_calls >>

\* the response arrives: the 402 branch, raise_for_status, the file write
DNDownloadResponse(r) ==
    /\ pc = "dn_request"
    /\ pc' = "dn_done"
    /\ response' = r
    /\ IF r.status_code = 402
       THEN /\ payment' = PaymentInfo(r)
            /\ result' = IF ~auto_pay
                         THEN [kind |-> "dict", value |-> PaymentInfo(r)]
                         ELSE [kind |-> "raised", exc |-> "Exception",
                               amount |-> PaymentInfo(r).amount,
                               currency |-> PaymentInfo(r).currency]
            /\ UNCHANGED file
       ELSE IF r.status_code # 200
       THEN /\ result' = [kind |-> "raised", exc |-> "HTTPError"]
            /\ UNCHANGED << payment, file >>
       ELSE /\ result' = [kind |-> "None"]
            /\ file' = IF output_path # None THEN r.content ELSE file
            /\ UNCHANGED payment
    /\ UNCHANGED << ctorVars, script, args, op, auto_pay, output_path, requests, transferVars,
                    handle_calls, transfer_calls >>

-----------------------------------------------------------------------------
(* SimpleX402Client.get_purchases *)

\* limit arguments: negative, zero, the smallest and the largest value the
\* docstring allows, the default and one above the largest
PurchaseLimits == { -1, 0, 1, 50, 100, 101 }

PurchasesUrl == "/api/agent/purchases"

\* the builtin min of two integers
PyMin(a, b) == IF a <= b THEN a ELSE b

\* params = {'limit': min(limit, 100), 'page': page}
PurchasesParams(limit, page) == [limit |-> PyMin(limit, 100), page |-> page]

\* get_purchases(limit): the GET with its query parameters is issued; the
\* client is in no pay-per-request call
GetPurchases(limit) ==
    /\ script = "none"
    /\ pc \in { "ready", "done" }
    /\ pc' = "purchases_request"
    /\ op' = "purchases"
    /\ output_path' = None
    /\ requests' = << [method |-> "GET", url |-> PurchasesUrl, body |-> None,
                       token |-> None, params |-> PurchasesParams(limit, 1)] >>
    /\ response' = NoResponse
    /\ payment' = NoPayment
    /\ attempt' = 0
    /\ submits' = 0
    /\ sleeps' = << >>
    /\ rpc_used' = {}
    /\ signature' = ""
    /\ error_msg' = ""
    /\ transfer_error' = NoTransferError
    /\ confirm_failed' = FALSE
    /\ handle_calls' = 0
    /\ transfer_calls' = 0
    /\ result' = NoResult
    /\ file' = None
    /\ UNCHANGED << ctorVars, script, args, auto_pay >>

\* response.raise_for_status() and response.json(): the history is
\* returned or an exception leaves get_purchases
PurchasesResponse(ok) ==
    /\ pc = "purchases_request"
    /\ pc' = "ready"
    /\ result' = IF ok THEN [kind |-> "json", content |-> "purchases"]
                       ELSE [kind |-> "raised", exc |-> "HTTPError"]
    /\ UNCHANGED << ctorVars, script, args, op, auto_pay, output_path,
                    requests, response, payment, transferVars, handle_calls,
                    transfer_calls, file >>

-----------------------------------------------------------------------------
(* DataNexusClient.purchase_dataset *)

PaymentMethods == { "solana", "x402", "card" }

TxHashArgs == { None, "", "tx-hash" }

TokenArgs == { None, "", "x402-token" }

\* PurchaseError that lets an unknown payment method through
PurchaseErrorAnyMethod(a) ==
    IF a.payment_method = "solana"
    THEN IF ~Truthy(a.payment_tx_hash)
         THEN "payment_tx_hash is required for Solana payment" ELSE ""
    ELSE IF ~Truthy(a.x402_token)
         THEN "x402_token is required for x402 payment" ELSE ""

\* the message of the ValueError the argument checks raise, "" when none
PurchaseError(a) ==
    IF a.payment_method = "solana"
    THEN IF ~Truthy(a.payment_tx_hash)
         THEN "payment_tx_hash is required for Solana payment" ELSE ""
    ELSE IF a.payment_method = "x402"
    THEN IF ~Truthy(a.x402_token)
         THEN "x402_token is required for x402 payment" ELSE ""
    ELSE "Invalid payment method. Use 'solana' or 'x402'"

\* the dict `data` sent as the JSON body
PurchaseData(a) ==
    IF a.payment_method = "solana"
    THEN [paymentMethod |-> a.payment_method,
          paymentTxHash |-> a.payment_tx_hash]
    ELSE [paymentMethod |-> a.payment_method, x402Token |-> a.x402_token]

\* purchase_dataset(dataset_id, payment_method, payment_tx_hash, x402_token)
\* up to the ValueError or the POST of _request
PurchaseDataset(m, h, t) ==
    /\ pc \in { "start", "dn_done" }
    /\ op' = "dn_purchase"
    /\ args' = PurchaseArgs(m, h, t)
    /\ IF PurchaseError(PurchaseArgs(m, h, t)) # ""
       THEN /\ pc' = "dn_done"
            /\ requests' = << >>
            /\ result' = [kind |-> "raised", exc |-> "ValueError",
                          message |-> PurchaseError(PurchaseArgs(m, h, t))]
       ELSE /\ pc' = "dn_purchase_request"
            /\ requests' = << Request("POST", PurchaseUrl,
                                      PurchaseData(PurchaseArgs(m, h, t)),
                                      None) >>
            /\ result' = NoResult
    /\ response' = NoResponse
    /\ payment' = NoPayment
    /\ file' = None
    /\ UNCHANGED << ctorVars, script, auto_pay, output_path, transferVars,
                    handle_calls, transfer_calls >>

\* _request: the POST returns its JSON, or raises Exception on an HTTP
\* error status or a failed request
PurchaseResponse(ok) ==
    /\ pc = "dn_purchase_request"
    /\ pc' = "dn_done"
    /\ result' = IF ok THEN [kind |-> "json", content |-> "order"]
                       ELSE [kind |-> "raised", exc |-> "Exception"]
    /\ UNCHANGED << ctorVars, script, args, op, auto_pay, output_path,
                    requests, response, payment, transferVars, handle_calls,
                    transfer_calls, file >>

-----------------------------------------------------------------------------
(* main() of x402_example.py: the client is constructed, datasets are      *)
(* searched, the first one is looked up and downloaded with auto_pay, the   *)
(* purchase history is fetched and the closing banner is printed.  The      *)
(* function has no try block: whatever a call raises leaves main().         *)

\* what search_datasets gives main(): a list with a dataset, an empty list,
\* a body whose success flag is false (main() then reads the name `datasets`
\* it never bound), or an exception (raise_for_status, connection failure)
SearchOutcomes == { "datasets", "empty", "not-success", "raises" }

\* SimpleX402Client(api_key=...): the key comes from SOLANA_PRIVATE_KEY of
\* the environment, the endpoint is the default
StartMain(key) ==
    /\ script = "none"
    /\ Construct(DefaultRpcUrl, key)
    /\ script' = "main:construct"
    /\ UNCHANGED args

\* client.search_datasets(query="solana", max_price=1.0) and the two
\* `if` statements that read its result
MainSearch(out) ==
    /\ script = "main:construct"
    /\ pc = "ready"
    /\ script' = CASE out = "datasets" -> "main:details"
                   [] out = "empty"    -> "main:purchases"
                   [] OTHER            -> "main:crashed"
    /\ UNCHANGED << ctorVars, args, pc, op, auto_pay, output_path, requests,
                    response, payment, transferVars, handle_calls,
                    transfer_calls, result, file >>

\* client.get_dataset_details(dataset_id) returns or raises; main() goes on
\* to download_dataset(..., auto_pay=True), which issues its first GET
MainDetails(ok) ==
    /\ script = "main:details"
    /\ IF ok
       THEN /\ NewCall("download", TRUE, "GET", DownloadUrl, None)
            /\ script' = "main:download"
       ELSE /\ script' = "main:crashed"
            /\ UNCHANGED << ctorVars, args, pc, op, auto_pay, output_path, requests,
                            response, payment, transferVars, handle_calls,
                            transfer_calls, result, file >>

\* download_dataset returned its dict (or there was nothing to download):
\* client.get_purchases() returns or raises, then the banner is printed
MainPurchases(ok) ==
    /\ \/ script = "main:purchases"
       \/ script = "main:download" /\ pc = "done" /\ result.kind # "raised"
    /\ script' = IF ok THEN "main:summary" ELSE "main:crashed"
    /\ UNCHANGED << ctorVars, args, pc, op, auto_pay, output_path, requests,
                    response, payment, transferVars, handle_calls,
                    transfer_calls, result, file >>

\* an exception left main(): the constructor raised, a call of main()
\* raised, or download_dataset let a request exception through
MainCrashed ==
    \/ script = "main:crashed"
    \/ script = "main:construct" /\ pc = "ctor_failed"
    \/ script = "main:download" /\ pc = "done" /\ result.kind = "raised"

-----------------------------------------------------------------------------
Next ==
    \/ \E url \in RpcUrlArgs, key \in KeyArgs : NewClient(url, key)
    \/ \E ok \in BOOLEAN : ProbePrimary(ok)
    \/ \E ok \in BOOLEAN : ProbeBackup(ok)
    \/ \E ap \in BOOLEAN : StartDownload(ap)
    \/ StartAnalyze
    \/ StartDemo
    \/ \E r \in Responses : FirstResponse(r)
    \/ PaymentRequired
    \/ \E ok \in BOOLEAN : BuildTransaction(ok)
    \/ \E out \in Signatures \cup { "fail" } : SendTransaction(out)
    \/ \E ok \in BOOLEAN : ConfirmTransaction(ok)
    \/ Sleep
    \/ RetryRequest
    \/ \E r \in Responses : RetryResponse(r)
    \/ HttpRaises
    \/ \E ap \in BOOLEAN, output \in BOOLEAN : StartDNDownload(ap, output)
    \/ \E r \in DNResponses : DNDownloadResponse(r)
    \/ \E m \in PaymentMethods, h \in TxHashArgs, t \in TokenArgs :
           PurchaseDataset(m, h, t)
    \/ \E ok \in BOOLEAN : PurchaseResponse(ok)
    \/ \E limit \in PurchaseLimits : GetPurchases(limit)
    \/ \E ok \in BOOLEAN : PurchasesResponse(ok)
    \/ \E key \in KeyArgs : StartMain(key)
    \/ \E out \in SearchOutcomes : MainSearch(out)
    \/ \E ok \in BOOLEAN : MainDetails(ok)
    \/ \E ok \in BOOLEAN : MainPurchases(ok)

Spec == Init /\ [][Next]_vars

\* a step of a running pay-per-request call: an HTTP request, an RPC call or
\* a sleep returns (or raises) and the code runs on to the next one
FlowStep ==
    \/ \E r \in Responses : FirstResponse(r)
    \/ PaymentRequired
    \/ \E ok \in BOOLEAN : BuildTransaction(ok)
    \/ \E out \in Signatures \cup { "fail" } : SendTransaction(out)
    \/ \E ok \in BOOLEAN : ConfirmTransaction(ok)
    \/ Sleep
    \/ RetryRequest
    \/ \E r \in Responses : RetryResponse(r)
    \/ HttpRaises

\* the program under the assumption that every blocking call of a running
\* flow eventually returns or raises
LiveSpec == Init /\ [][Next]_vars /\ WF_vars(FlowStep)

-----------------------------------------------------------------------------
(* Properties *)

ClientCall == op \in { "download", "analyze" }

InTransfer == pc \in { "attempt", "send", "confirm", "sleep" }

RECURSIVE SumSeq(_)
SumSeq(q) == IF Len(q) = 0 THEN 0 ELSE Head(q) + SumSeq(Tail(q))

\* the retried request was answered (the call did not end in an exception)
\* and the answer is in `response`
RetryAnswered ==
    Len(requests) = 2 /\ pc # "retry" /\ result.kind # "raised"

C2_NoPaymentOnFirst200 ==
    op \in { "download", "demo" } =>
        /\ (Len(requests) = 1 /\ response.status_code = 200) =>
               /\ pc = "done"
               /\ handle_calls = 0
               /\ transfer_calls = 0
               /\ file = response.content
        /\ (pc = "payment_required" \/ InTransfer \/ pc = "paid") =>
               Len(requests) = 1 /\ response.status_code = 402
        /\ Len(requests) = 2 => transfer_calls = 1

C2_Witness ==
    /\ op = "demo"
    /\ pc = "done"
    /\ Len(requests) = 1
    /\ response.status_code = 200
    /\ transfer_calls = 0
    /\ file \in Contents

\* C3: with no keypair a 402 on download_dataset or analyze_dataset ends the
\* call with a failure dict (no exception), no transfer is started or
\* submitted and no second request is issued.
C3_NoIdentityNoTransferNoRetry ==
    (ClientCall /\ keypair = None) =>
        /\ transfer_calls = 0
        /\ submits = 0
        /\ ~InTransfer
        /\ pc \notin { "paid", "retry" }
        /\ Len(requests) <= 1
        /\ (pc = "done" /\ response.status_code = 402) =>
               result.kind = "dict" /\ result.success = FALSE

C3_Witness ==
    /\ op = "analyze"
    /\ keypair = None
    /\ pc = "done"
    /\ response.status_code = 402
    /\ handle_calls = 1
    /\ result = PaymentFailed

\* C4: one call of _transfer_usdc starts at most 3 attempts and calls
\* send_transaction at most 3 times.
C4_AtMostThreeAttempts ==
    /\ attempt < 3
    /\ submits <= 3
    /\ submits <= attempt + 1

C4_Witness ==
    /\ pc = "done"
    /\ transfer_calls = 1
    /\ submits = 3
    /\ signature = ""

\* _transfer_usdc gave up: its last attempt failed and it raised
GaveUp ==
    /\ pc = "done"
    /\ transfer_calls = 1
    /\ Len(requests) = 1
    /\ signature = ""

C6_SignatureReturnedDespiteConfirmFailure ==
    /\ [](pc = "paid" => signature \in Signatures)
    /\ [](signature # "" => pc \in { "confirm", "paid", "retry", "done" })
    /\ [][pc = "confirm" => (pc' = "paid" /\ signature' = signature)]_vars

C6_Witness ==
    /\ pc = "paid"
    /\ confirm_failed
    /\ signature \in Signatures

\* the 402 whose payment details are in `payment`
DNParsed == op = "dn_download" /\ pc = "dn_done" /\ response.status_code = 402

ClientParsed ==
    /\ ClientCall
    /\ handle_calls = 1
    /\ Len(requests) = 1
    /\ pc \in { "attempt", "send", "confirm", "sleep", "paid", "done" }

\* C7 as stated: amount, currency and recipient come from the x-payment-*
\* header whenever the header is present.
C7_HeaderWhenPresent ==
    /\ DNParsed =>
           /\ response.amount # None => payment.amount = response.amount
           /\ response.currency # None => payment.currency = response.currency
           /\ response.recipient # None => payment.recipient = response.recipient
    /\ ClientParsed =>
           /\ response.amount # None => payment.amount_str = response.amount
           /\ response.currency # None => payment.currency = response.currency
           /\ response.recipient # None => payment.recipient = response.recipient

\* C7 as amended: amount, currency and recipient come from the header
\* whenever the header is present and not empty; DataNexusClient uses the
\* error-body field (or the default) only when the header is absent or
\* empty and the body parsed, and never for the recipient;
\* SimpleX402Client never uses the body.
C7_HeaderWhenNonEmpty ==
    /\ DNParsed =>
           /\ Truthy(response.amount) => payment.amount = response.amount
           /\ Truthy(response.currency) => payment.currency = response.currency
           /\ payment.recipient = response.recipient
           /\ payment.amount # response.amount =>
                  /\ ~Truthy(response.amount)
                  /\ response.body.parsed
                  /\ payment.amount = response.body.price
           /\ payment.currency # response.currency =>
                  /\ ~Truthy(response.currency)
                  /\ payment.currency =
                         IF response.body.parsed /\ response.body.currency # None
                         THEN response.body.currency ELSE "USDC"
    /\ ClientParsed =>
           /\ payment.amount_str = response.amount
           /\ payment.recipient = response.recipient
           /\ payment.currency =
                  IF response.currency = None THEN "USDC" ELSE response.currency

C7_Witness ==
    /\ DNParsed
    /\ response.amount = ""
    /\ response.body.parsed
    /\ response.body.price = "0.25"
    /\ payment.amount = "0.25"
    /\ response.currency = "USDC"
    /\ payment.currency = "USDC"

\* the exact value of (-)n / 10^d in base units, truncated toward zero
ExactBaseUnits(a) ==
    LET v == IF a.d <= USDC_DECIMALS
             THEN a.n * Pow10(USDC_DECIMALS - a.d)
             ELSE a.n \div Pow10(a.d - USDC_DECIMALS)
    IN  IF a.neg THEN 0 - v ELSE v

\* C8: the base units computed from the 402 amount are amount * 10^6
\* exactly for an amount with at most 6 fractional digits, and that value
\* truncated toward zero for one with more.
C8_ExactBaseUnits ==
    (op \in { "download", "analyze", "demo" } /\ transfer_calls = 1
        /\ payment # NoPayment) =>
        payment.amount_lamports = ExactBaseUnits(DecimalOf(payment.amount_str))

\* the endpoints _init_solana_client probes when every probe fails
ProbeOrder ==
    << rpc_url >> \o SelectSeq(BackupRpcUrls, LAMBDA u : u # rpc_url)

\* C9: the primary is probed first, then the backups in list order; a probe
\* that answers ends the probing and its endpoint is adopted; when every
\* endpoint failed, construction fails with the connectivity error and no
\* client exists.
C9_RpcFallbackOrder ==
    /\ Len(probes) <= Len(ProbeOrder)
    /\ \A i \in 1..Len(probes) : probes[i].url = ProbeOrder[i]
    /\ \A i \in 1..(Len(probes) - 1) : ~probes[i].ok
    /\ (Len(probes) > 0 /\ probes[Len(probes)].ok) =>
           /\ solana_client = probes[Len(probes)].url
           /\ pc \notin { "probe_primary", "probe_backup" }
    /\ solana_client # NoUrl =>
           /\ probes[Len(probes)].ok
           /\ solana_client = probes[Len(probes)].url
    /\ (Len(probes) = Len(ProbeOrder) /\ ~probes[Len(probes)].ok) =>
           /\ pc = "ctor_failed"
           /\ ctor_error = "Failed to connect to any Solana RPC node"
           /\ solana_client = NoUrl
    /\ pc \in { "ready", "request", "payment_required", "attempt", "send",
                "confirm", "sleep", "paid", "retry", "done" } =>
           solana_client # NoUrl

C9_Witness ==
    /\ pc = "ready"
    /\ rpc_url = DefaultRpcUrl
    /\ Len(probes) = 3
    /\ solana_client = BackupRpcUrls[3]

\* C10: a second request exists only when _transfer_usdc returned a
\* signature in this call; it repeats method, URL and body of the first
\* request and its x-payment-token header is that signature.
C10_RetryCarriesSignature ==
    (ClientCall /\ Len(requests) >= 2) =>
        /\ transfer_calls = 1
        /\ signature \in Signatures
        /\ requests[1].token = None
        /\ requests[2].token = signature
        /\ requests[2].method = requests[1].method
        /\ requests[2].url = requests[1].url
        /\ requests[2].body = requests[1].body

C10_Witness ==
    /\ op = "analyze"
    /\ pc = "retry"
    /\ Len(requests) = 2
    /\ requests[2].token = "sig-2"
    /\ requests[2].method = "POST"

-----------------------------------------------------------------------------
(* The documented state machine of the pay-per-request flow *)

\* the call ended with a successful outcome
Succeeded ==
    /\ pc = "done"
    /\ \/ result.kind = "json"
       \/ result.kind = "dict" /\ result.success
       \/ result.kind = "demo" /\ result.outcome = "downloaded"

\* the state of the documented machine the run is in; PayFailed is passed
\* through inside the step that ends the call (the exception of
\* _transfer_usdc is caught and the failure returned without an outside
\* call in between), so a failed payment shows as Paying followed by Failure
FlowState ==
    CASE pc \in { "ready", "purchases_request" } -> "Idle"
      [] pc = "request"          -> "Requesting"
      [] pc = "payment_required" -> "PaymentRequired"
      [] InTransfer              -> "Paying"
      [] pc = "paid"             -> "Paid"
      [] pc = "retry"            -> "RetryRequesting"
      [] pc = "done"             -> IF Succeeded THEN "Success" ELSE "Failure"
      [] OTHER                   -> "Outside"

\* the transitions of the documented machine; the last four lead from the
\* end of a run to the next run or to the idle client
DocumentedTransitions ==
    { << "Idle", "Requesting" >>,
      << "Requesting", "Success" >>,
      << "Requesting", "PaymentRequired" >>,
      << "PaymentRequired", "Paying" >>,
      << "Paying", "Paid" >>,
      << "Paying", "Failure" >>,
      << "Paid", "RetryRequesting" >>,
      << "RetryRequesting", "Success" >>,
      << "RetryRequesting", "Failure" >>,
      << "Success", "Requesting" >>,
      << "Failure", "Requesting" >>,
      << "Success", "Idle" >>,
      << "Failure", "Idle" >> }

\* the transitions the code adds: a first response that is neither 200 nor
\* 402 (or a request that raises) fails the call at once, and a 402 fails it
\* without a payment when auto_pay is off, no keypair is loaded or the
\* amount is not a number
FailFastTransitions ==
    { << "Requesting", "Failure" >>,
      << "PaymentRequired", "Failure" >> }

\* C11 as stated: a run moves only along the documented transitions.
C11_OnlyDocumentedTransitions ==
    [][ \/ FlowState = "Outside"
        \/ FlowState = FlowState'
        \/ << FlowState, FlowState' >> \in DocumentedTransitions ]_vars

\* C11 as amended: a run moves only along the documented transitions and
\* the two fail-fast transitions Requesting to Failure and PaymentRequired
\* to Failure; in particular a retried request is never followed by a
\* second payment.
C11_DocumentedOrFailFast ==
    [][ \/ FlowState = "Outside"
        \/ FlowState = FlowState'
        \/ << FlowState, FlowState' >>
               \in DocumentedTransitions \cup FailFastTransitions ]_vars

\* a run that took Requesting to Failure: the first answer was a 500
C11_Witness ==
    /\ op = "download"
    /\ FlowState = "Failure"
    /\ Len(requests) = 1
    /\ response.status_code = 500
    /\ result.kind = "dict"
    /\ result.status_code = 500

\* C12: while _transfer_usdc runs (a transaction is being built, signed,
\* submitted or confirmed, or the loop sleeps) and after it returned a
\* signature, the client holds a keypair; no transfer was ever entered or
\* submitted by a client without one.
C12_TransferHasIdentity ==
    /\ (InTransfer \/ pc = "paid") => keypair # None
    /\ (transfer_calls > 0 \/ submits > 0 \/ signature # "") => keypair # None

C12_Witness ==
    /\ op = "demo"
    /\ pc = "confirm"
    /\ submits = 1
    /\ keypair = "keypair"

\* C13: _transfer_usdc is entered only with a positive amount of base
\* units (a 402 whose amount is missing, zero or negative starts no transfer).
C13_PositiveAmountOnly ==
    (transfer_calls = 1 /\ payment # NoPayment) => payment.amount_lamports > 0

\* the 402 carries a field neither in its header nor in its parsed body
AbsentInBody(f) == ~response.body.parsed \/ response.body[f] = None

\* parsing the 402 raised nothing: DataNexusClient returned the details or
\* raised its own "Payment required" exception built from them
DNParseDidNotRaise ==
    \/ result.kind = "dict" /\ result.value = payment
    \/ result.kind = "raised" /\ result.exc = "Exception"

C15_NoExceptionCrossesScript == ~MainCrashed

\* a call of download_dataset or analyze_dataset returned to its caller
ClientReturned == ClientCall /\ pc = "done" /\ result.kind # "raised"

\* the result is a failure dict that carries the status code st
FailureWithStatus(st) ==
    /\ result.kind = "dict"
    /\ ~result.success
    /\ "status_code" \in DOMAIN result
    /\ result.status_code = st

\* the last response went through the status check at the end of the call:
\* it was the first response and no 402, or the response to the retry
ReachedStatusCheck == Len(requests) = 2 \/ response.status_code # 402

DNAnswered ==
    /\ op = "dn_download"
    /\ pc = "dn_done"
    /\ output_path # None
    /\ response.status_code \in { 200, 402 }

\* C17: DataNexusClient.download_dataset returns the payment details with
\* paymentRequired = TRUE when auto_pay is off and the server answers 402;
\* it returns None with the file written when auto_pay is on or the server
\* answers 200.
C17_DNDownloadReturnValues ==
    DNAnswered =>
        /\ (~auto_pay /\ response.status_code = 402) =>
               /\ result.kind = "dict"
               /\ result.value.paymentRequired
        /\ (auto_pay \/ response.status_code = 200) =>
               /\ result.kind = "None"
               /\ file = response.content

\* the last call was purchase_dataset with a payment method and its proof
PurchaseWellFormed ==
    \/ args.payment_method = "solana" /\ args.payment_tx_hash \notin { None, "" }
    \/ args.payment_method = "x402" /\ args.x402_token \notin { None, "" }

\* C18: purchase_dataset raises ValueError and sends no request when the
\* method is 'solana' without payment_tx_hash, 'x402' without x402_token,
\* or neither of the two; otherwise it sends exactly one POST whose body
\* holds the method and the proof field of that method, and no other proof.
C18_PurchaseValidatesBeforeRequest ==
    op = "dn_purchase" =>
        /\ ~PurchaseWellFormed =>
               /\ pc = "dn_done"
               /\ requests = << >>
               /\ result.kind = "raised"
               /\ result.exc = "ValueError"
        /\ PurchaseWellFormed =>
               /\ Len(requests) = 1
               /\ requests[1].method = "POST"
               /\ requests[1].url = PurchaseUrl
               /\ requests[1].body.paymentMethod = args.payment_method
               /\ args.payment_method = "solana" =>
                      /\ DOMAIN requests[1].body =
                             { "paymentMethod", "paymentTxHash" }
                      /\ requests[1].body.paymentTxHash = args.payment_tx_hash
               /\ args.payment_method = "x402" =>
                      /\ DOMAIN requests[1].body =
                             { "paymentMethod", "x402Token" }
                      /\ requests[1].body.x402Token = args.x402_token
               /\ result.kind # "raised" \/ result.exc # "ValueError"

C18_Witness ==
    /\ op = "dn_purchase"
    /\ pc = "dn_done"
    /\ args.payment_method = "x402"
    /\ args.x402_token = ""
    /\ args.payment_tx_hash = "tx-hash"
    /\ requests = << >>
    /\ result.kind = "raised"
    /\ result.exc = "ValueError"

\* the transactions the current _transfer_usdc built and signed: each one
\* was handed to send_transaction, except the one waiting to be sent
TransfersBuilt == submits + (IF pc = "send" THEN 1 ELSE 0)

\* C19 as stated: one 402 response leads to one transfer being built and
\* never to a second one.
C19_OneTransferBuilt ==
    /\ handle_calls <= 1
    /\ transfer_calls <= 1
    /\ TransfersBuilt <= 1

\* C19 as amended: one 402 response leads to one call of
\* _handle_402_response and one call of _transfer_usdc; that call builds a
\* new transaction from the same recipient and amount in every attempt, at
\* most MaxRetries in all, and builds none after a submission succeeded.
C19_OneTransferCallBuildsPerAttempt ==
    /\ [](handle_calls <= 1 /\ transfer_calls <= 1)
    /\ [](TransfersBuilt <= attempt + 1 /\ TransfersBuilt <= MaxRetries)
    /\ [](signature # "" => pc \notin { "attempt", "send", "sleep" })
    /\ [][(InTransfer /\ pc' # "done") => payment' = payment]_vars

\* the third transaction built from one 402 response
C19_Witness ==
    /\ op = "download"
    /\ pc = "send"
    /\ transfer_calls = 1
    /\ submits = 2
    /\ TransfersBuilt = 3

\* the constructor has returned (or raised)
Constructed == pc \notin { "start", "probe_primary", "probe_backup" }

\* C20: the endpoint is chosen while the client is constructed; afterwards
\* no step of a search, download, analysis, transfer attempt or retry
\* probes an endpoint or changes self.solana_client or self.solana_rpc_url,
\* and every RPC call of a transfer goes to the chosen endpoint.
C20_EndpointChosenOnce ==
    /\ [][Constructed =>
             /\ solana_client' = solana_client
             /\ solana_rpc_url' = solana_rpc_url
             /\ probes' = probes]_vars
    /\ [](rpc_used \subseteq { solana_client })
    /\ []((InTransfer \/ pc = "paid") => solana_client # NoUrl)

\* the second attempt of a transfer on a backup endpoint adopted at
\* construction
C20_Witness ==
    /\ pc = "send"
    /\ attempt = 1
    /\ submits = 1
    /\ solana_client = BackupRpcUrls[2]
    /\ rpc_used = { BackupRpcUrls[2] }

\* C21: download_dataset writes the output file only when its final
\* response has status 200, and then writes exactly the bytes of that
\* response; a call that ends in a failure (auto-pay disabled, payment
\* failed, final status other than 200) or is still running wrote nothing.
C21_FileWrittenOnlyOnSuccess ==
    op = "download" =>
        /\ file # None =>
               /\ pc = "done"
               /\ response.status_code = 200
               /\ file = response.content
               /\ result.kind = "dict"
               /\ result.success
        /\ (pc = "done" /\ ~Succeeded) => file = None
        /\ Succeeded => file = response.content

\* a paid download: the file holds the bytes of the retried response
C21_Witness ==
    /\ op = "download"
    /\ pc = "done"
    /\ Len(requests) = 2
    /\ response.status_code = 200
    /\ file = "bytes-b"
    /\ result.success

\* C22: attempt k+1 of _transfer_usdc starts only out of the sleep that
\* follows the failed attempt k, that sleep lasts 2*k seconds, and the
\* client sleeps only after a failed attempt that is not the last one; so
\* when attempt k+1 runs the sleeps made so far are 2, 4, ..., 2*k.
C22_BackoffBeforeNextAttempt ==
    /\ [][attempt' = attempt + 1 =>
             /\ pc = "sleep"
             /\ pc' = "attempt"
             /\ sleeps' = Append(sleeps, 2 * (attempt + 1))]_vars
    /\ [](pc = "sleep" => (attempt + 1 < MaxRetries /\ error_msg # ""))
    /\ [](/\ Len(sleeps) = attempt
          /\ \A k \in 1..Len(sleeps) : sleeps[k] = 2 * k)

\* the third attempt starts after sleeps of 2 and 4 seconds
C22_Witness ==
    /\ pc = "attempt"
    /\ attempt = 2
    /\ sleeps = << 2, 4 >>
    /\ submits = 2

\* the messages of the failures an attempt can end with at position p
FailuresAt(p) ==
    IF p = "send" THEN { "send_transaction failed" }
    ELSE { "invalid recipient address", "blockhash request failed" }

\* C23: _transfer_usdc raises only in the step in which its last attempt
\* (the third) fails, never after a signature was returned, and the
\* exception carries the message of the failure of that very step.
C23_RaisesLastErrorAfterFinalAttempt ==
    /\ [](transfer_error # NoTransferError =>
             /\ pc = "done"
             /\ attempt = MaxRetries - 1
             /\ signature = ""
             /\ transfer_error.attempts = MaxRetries
             /\ transfer_error.error_msg = error_msg)
    /\ [][(transfer_error = NoTransferError /\ transfer_error' # NoTransferError) =>
             /\ pc \in { "attempt", "send" }
             /\ attempt = MaxRetries - 1
             /\ transfer_error'.error_msg \in FailuresAt(pc)]_vars
    /\ []((pc = "done" /\ transfer_calls = 1 /\ Len(requests) = 1
             /\ signature = "") => transfer_error # NoTransferError)

\* two submissions failed, then the blockhash request of the third attempt:
\* the exception carries the message of the blockhash failure
C23_Witness ==
    /\ pc = "done"
    /\ submits = 2
    /\ attempt = 2
    /\ transfer_error = TransferError("blockhash request failed")

\* C24: once send_transaction returned a signature, the call of
\* _transfer_usdc makes no further attempt and no further submission and
\* keeps that signature; a confirmation that raises leaves the transfer
\* returned, not re-submitted.
C24_AtMostOneSuccessfulSubmission ==
    /\ [][(signature # "" /\ pc \in { "confirm", "paid", "retry" }) =>
             /\ signature' = signature
             /\ submits' <= submits
             /\ attempt' <= attempt
             /\ pc' \notin { "attempt", "send", "sleep" }]_vars
    /\ [][(signature = "" /\ signature' # "") =>
             (pc = "send" /\ submits' = submits + 1)]_vars
    /\ [](confirm_failed => (pc = "paid" /\ signature \in Signatures))

\* the first submission failed, the second returned a signature and its
\* confirmation raised: the transfer has returned
C24_Witness ==
    /\ pc = "paid"
    /\ confirm_failed
    /\ attempt = 1
    /\ submits = 2
    /\ signature = "sig-1"

\* C25: download_dataset and analyze_dataset return the failure "Payment
\* failed - no Solana private key provided" only from a client without a
\* keypair; a transfer that ran out of attempts, or an amount that is no
\* number, is reported with another error.
C25_MissingIdentityErrorOnlyWithoutIdentity ==
    (ClientCall /\ pc = "done" /\ result.kind = "dict" /\ ~result.success
        /\ result.error = "Payment failed - no Solana private key provided")
        => keypair = None

\* the call has ended: it returned a result or raised
Terminal == pc = "done" /\ result.kind # "none"

\* C26: when every HTTP request, RPC call and sleep of a running flow
\* eventually returns or raises, every started download_dataset or
\* analyze_dataset eventually ends with a result.
C26_FlowTerminates ==
    (ClientCall /\ pc = "request") ~> Terminal

\* an analysis that was paid for and ended with the answer to its retry
C26_Witness ==
    /\ op = "analyze"
    /\ Terminal
    /\ Len(requests) = 2
    /\ response.status_code = 200
    /\ result.kind = "json"

\* C27: once a client is adopted, self.solana_rpc_url is the endpoint of
\* self.solana_client: the primary URL when the first probe answered, else
\* the backup that answered; no endpoint is probed twice, so the primary is
\* not probed again when the backup list holds it.
C27_RecordedUrlIsAdoptedEndpoint ==
    /\ solana_client # NoUrl =>
           /\ solana_rpc_url = solana_client
           /\ probes[1].ok => solana_client = rpc_url
           /\ ~probes[1].ok =>
                  /\ solana_client # rpc_url
                  /\ \E j \in 1..Len(BackupRpcUrls) :
                         solana_client = BackupRpcUrls[j]
    /\ \A i \in 1..Len(probes) :
           /\ (i = 1) = (probes[i].url = rpc_url)
           /\ \A j \in 1..Len(probes) :
                  probes[i].url = probes[j].url => i = j

\* the default primary failed and the second entry of the backup list (the
\* first one is the primary itself) answered
C27_Witness ==
    /\ pc = "ready"
    /\ rpc_url = DefaultRpcUrl
    /\ Len(probes) = 2
    /\ solana_rpc_url = BackupRpcUrls[2]
    /\ solana_client = solana_rpc_url

\* C28: download_dataset with auto_pay=False never invokes
\* _handle_402_response or _transfer_usdc and issues one request; when that
\* request is answered 402 the call returns the failure "Payment required"
\* whose payment_info holds amount, currency and recipient as the headers
\* of the response give them.
C28_AutoPayOffReturnsPaymentInfo ==
    (op = "download" /\ ~auto_pay) =>
        /\ handle_calls = 0
        /\ transfer_calls = 0
        /\ submits = 0
        /\ Len(requests) = 1
        /\ (pc = "done" /\ response.status_code = 402) =>
               /\ result.kind = "dict"
               /\ ~result.success
               /\ result.error = "Payment required"
               /\ result.payment_info =
                      [amount |-> response.amount,
                       currency |-> response.currency,
                       recipient |-> response.recipient]

\* a client that could pay is told the price instead
C28_Witness ==
    /\ op = "download"
    /\ ~auto_pay
    /\ keypair # None
    /\ pc = "done"
    /\ response.status_code = 402
    /\ response.amount = "0.10"
    /\ response.recipient = Recipient
    /\ result.kind = "dict"
    /\ result.payment_info.amount = "0.10"
    /\ result.payment_info.recipient = Recipient

\* C29: the limit query parameter of every get_purchases request is
\* within 1..100, whatever limit the caller passes.
C29_PurchasesLimitInRange ==
    \A i \in 1..Len(requests) :
        "params" \in DOMAIN requests[i] => requests[i].params.limit \in 1..100

====
